---- MODULE Spec2Model ----
(***************************************************************************)
(* LinkedInAgent (src/linkedin-agent.js): the publisher operations         *)
(* postTextUpdate, postArticle, postImage and getUserProfile, the image    *)
(* upload steps registerImageUpload and uploadImage, the error handler     *)
(* handleError and the scheduler schedulePost.                             *)
(*                                                                         *)
(* Every async operation is a sequence of run-to-completion segments, one  *)
(* per await: an action of this module is one such segment.  The transport *)
(* (axios), the file system (fs) and the timer facility (node-schedule)    *)
(* are the environment: a request settles with any outcome of Outcomes.    *)
(***************************************************************************)
EXTENDS Naturals, Sequences, FiniteSets

\* ------------------------------------------------------------------ bounds
\* Direct calls plus scheduled jobs, and the last instant of the clock.
MaxOps == 2
MaxTime == 1

\* ------------------------------------------------------------- environment
\* A value JavaScript treats as absent: process.env of an unset variable, an
\* omitted argument, an omitted field of a post configuration.
Undefined == "undefined"

\* The values the two environment variables can hold.
TokenValues == {Undefined, "", "token"}
ActorValues == {Undefined, "", "urn:li:person:1"}

\* !x of JavaScript on the strings above.
Falsy(x) == x = Undefined \/ x = ""

\* Paths fs.readFileSync can read; any other path makes it throw.
ReadableFiles == {"/tmp/x.jpg"}
ImagePaths == {"/tmp/x.jpg", "/tmp/missing.jpg"}
VisibilityInputs == {Undefined, "CONNECTIONS"}
ApiStatuses == {401}

PostsEndpoint == "https://api.linkedin.com/v2/ugcPosts"
RegisterEndpoint == "https://api.linkedin.com/v2/assets?action=registerUpload"
ProfileEndpoint == "https://api.linkedin.com/v2/me"
UploadEndpoint == "uploadUrl"

VARIABLES
    accessToken,   \* this.accessToken
    personURN,     \* this.personURN
    ops,           \* the publisher operations started so far, in start order
    jobs,          \* the jobs handed to the timer facility, in registration order
    now,           \* the clock
    frame,         \* the synchronous call of schedulePost being executed, if any
    netCalls,      \* transport requests issued so far
    assetCount,    \* assets the remote side has registered so far
    shareCount,    \* posts the remote side has created so far
    argv,          \* the command the process was started with, as commander
                   \* parsed it (a sequence of at most one: empty when the
                   \* module is loaded by another program)
    exitCode       \* the status process.exit was called with (a sequence of
                   \* at most one: empty while the process runs)

vars ==
    <<accessToken, personURN, ops, jobs, now, frame, netCalls, assetCount,
      shareCount, argv, exitCode>>

\* ------------------------------------------------------------------ errors
NoResponse == [present |-> FALSE, status |-> 0, data |-> ""]

\* throw new Error(message): neither a response nor a request.
PlainError(msg) == [response |-> NoResponse, request |-> FALSE, message |-> msg]

\* axios: the server answered with a non-2xx status.
StatusError(s) ==
    [response |-> [present |-> TRUE, status |-> s, data |-> "error body"],
     request |-> TRUE, message |-> "Request failed with status code"]

\* axios: the request was sent and no response came.
NoReplyError == [response |-> NoResponse, request |-> TRUE, message |-> "Network Error"]

\* axios: the request could not be set up.
SetupError == PlainError("request setup failed")

TransportErrors == {StatusError(s) : s \in ApiStatuses} \cup {NoReplyError, SetupError}

\* What one transport request can settle with: a 2xx response or an error.
\* shaped: the response data has the fields the code reads from it.
Outcomes ==
    {[ok |-> TRUE, shaped |-> TRUE, error |-> PlainError("")]}
    \cup {[ok |-> FALSE, shaped |-> FALSE, error |-> e] : e \in TransportErrors}

\* The registration request can also get a 2xx response whose data lacks
\* value.uploadMechanism.
RegisterOutcomes ==
    Outcomes \cup {[ok |-> TRUE, shaped |-> FALSE, error |-> PlainError("")]}

\* ---------------------------------------------------------- validateConfig
\* validateConfig without its second check.
validateConfigTokenOnly ==
    IF Falsy(accessToken)
    THEN <<PlainError("LINKEDIN_ACCESS_TOKEN is not set in .env file")>>
    ELSE <<>>

\* validateConfig testing the actor identifier before the token.
validateConfigActorFirst ==
    IF Falsy(personURN)
    THEN <<PlainError("LINKEDIN_PERSON_URN is not set in .env file")>>
    ELSE IF Falsy(accessToken)
    THEN <<PlainError("LINKEDIN_ACCESS_TOKEN is not set in .env file")>>
    ELSE <<>>

\* The error validateConfig throws, as a sequence: empty when it returns.
validateConfig ==
    IF Falsy(accessToken)
    THEN <<PlainError("LINKEDIN_ACCESS_TOKEN is not set in .env file")>>
    ELSE IF Falsy(personURN)
    THEN <<PlainError("LINKEDIN_PERSON_URN is not set in .env file")>>
    ELSE <<>>

\* -------------------------------------------------------------- getHeaders
getHeaders ==
    [Authorization |-> <<"Bearer", accessToken>>,
     ContentType |-> "application/json",
     RestliProtocolVersion |-> "2.0.0",
     LinkedInVersion |-> "202311"]

\* The header set of the binary upload.
uploadHeaders ==
    [Authorization |-> <<"Bearer", accessToken>>,
     ContentType |-> "application/octet-stream"]

\* ------------------------------------------------------------- handleError
\* The console.error lines of handleError, one record per call.
Line(text, num, arg) == [text |-> text, num |-> num, arg |-> arg]

\* handleError testing error.request before error.response.
handleErrorLinesRequestFirst(error) ==
    IF error.request
    THEN <<Line("No response received from LinkedIn API", 0, ""),
           Line("", 0, error.message)>>
    ELSE IF error.response.present
    THEN <<Line("LinkedIn API Error:", 0, ""),
           Line("Status:", error.response.status, ""),
           Line("Message:", 0, error.response.data)>>
    ELSE <<Line("Error:", 0, error.message)>>

handleErrorLines(error) ==
    IF error.response.present
    THEN <<Line("LinkedIn API Error:", 0, ""),
           Line("Status:", error.response.status, ""),
           Line("Message:", 0, error.response.data)>>
    ELSE IF error.request
    THEN <<Line("No response received from LinkedIn API", 0, ""),
           Line("", 0, error.message)>>
    ELSE <<Line("Error:", 0, error.message)>>

\* handleError without its final throw.
handleErrorSwallows(error) == <<>>

\* What handleError throws, as a sequence: empty if it returned normally.
handleErrorThrows(error) == <<error>>

\* ---------------------------------------------------------------- payloads
\* A visibility parameter without its default value.
DefaultVisibilityNone(v) == v

\* The default parameter value visibility = 'PUBLIC'.
DefaultVisibility(v) == IF v = Undefined THEN "PUBLIC" ELSE v

NoMedia == <<>>

\* A text payload that ignores the visibility it is given.
TextPostDataPublic(a) ==
    [author |-> personURN, lifecycleState |-> "PUBLISHED",
     text |-> a.text, shareMediaCategory |-> "NONE", media |-> NoMedia,
     visibility |-> "PUBLIC"]

TextPostData(a) ==
    [author |-> personURN, lifecycleState |-> "PUBLISHED",
     text |-> a.text, shareMediaCategory |-> "NONE", media |-> NoMedia,
     visibility |-> DefaultVisibility(a.visibility)]

ArticlePostData(a) ==
    [author |-> personURN, lifecycleState |-> "PUBLISHED",
     text |-> a.text, shareMediaCategory |-> "ARTICLE",
     media |-> <<[status |-> "READY", originalUrl |-> a.articleUrl,
                  title |-> a.articleTitle,
                  description |-> a.articleDescription, media |-> 0]>>,
     visibility |-> DefaultVisibility(a.visibility)]

\* A media entry that carries no asset.
MediaWithoutAsset ==
    [status |-> "READY", originalUrl |-> "", title |-> "", description |-> "",
     media |-> 0]

\* An image payload whose media entry does not carry the asset.
ImagePostDataNoAsset(a, asset) ==
    [author |-> personURN, lifecycleState |-> "PUBLISHED",
     text |-> a.text, shareMediaCategory |-> "IMAGE",
     media |-> <<MediaWithoutAsset>>,
     visibility |-> DefaultVisibility(a.visibility)]

ImagePostData(a, asset) ==
    [author |-> personURN, lifecycleState |-> "PUBLISHED",
     text |-> a.text, shareMediaCategory |-> "IMAGE",
     media |-> <<[status |-> "READY", originalUrl |-> "", title |-> "",
                  description |-> "", media |-> asset]>>,
     visibility |-> DefaultVisibility(a.visibility)]

registerData ==
    [recipes |-> <<"urn:li:digitalmediaRecipe:feedshare-image">>,
     owner |-> personURN,
     serviceRelationships |->
        <<[relationshipType |-> "OWNER",
           identifier |-> "urn:li:userGeneratedContent"]>>]

\* ---------------------------------------------------------------- requests
NoBody == [kind |-> "none"]
FileBytes(path) == [kind |-> "bytes", of |-> path]

\* One transport request.  upload is the number of the one-time upload URL
\* a PUT goes to (0 for a request to a fixed endpoint).
Request(method, url, upload, headers, body) ==
    [method |-> method, url |-> url, upload |-> upload,
     headers |-> headers, body |-> body]

\* --------------------------------------------------------------- arguments
Args(text, url, title, description, path, visibility) ==
    [text |-> text, articleUrl |-> url, articleTitle |-> title,
     articleDescription |-> description, imagePath |-> path,
     visibility |-> visibility]

Kinds == {"text", "article", "image", "profile"}

\* The argument list of a call that takes no argument.
NoArgs == Args("", "", "", "", "", Undefined)

\* The argument lists a caller passes to each post method.
TextArgs == {Args("T", "", "", "", "", v) : v \in VisibilityInputs}
ArticleArgs ==
    {Args("T", "https://a", "Title", "D", "", v) : v \in VisibilityInputs}
ImageArgs ==
    {Args("T", "", "", "", p, v) : p \in ImagePaths, v \in VisibilityInputs}

\* The argument lists a caller passes to the operation of each kind.
ArgsOf(kind) ==
    CASE kind = "text" -> TextArgs
      [] kind = "article" -> ArticleArgs
      [] kind = "image" -> ImageArgs
      [] OTHER -> {NoArgs}

\* -------------------------------------------------------------- operations
\* An operation that has run to its first await, or to its end.
\*   owner    0 for a direct call, else the job whose callback made the call
\*   pc       the await the operation is suspended at, or "done"
\*   reqs     the transport requests it has issued, in order
\*   resps    the responses those requests have settled with, in order
\*   reads    how many times it has read the image file
\*   thrown   the error its catch block caught (a sequence of at most one)
\*   raised   the error it rejected with (a sequence of at most one)
\*   settled  "pending", "resolved" or "rejected"
\*   value    what it resolved with (a sequence of at most one: empty for
\*            undefined)
NewOp(kind, args, owner) ==
    [kind |-> kind, args |-> args, owner |-> owner, pc |-> "start",
     reqs |-> <<>>, resps |-> <<>>, reads |-> 0, uploadUrl |-> 0, asset |-> 0,
     logged |-> <<>>, thrown |-> <<>>, raised |-> <<>>,
     settled |-> "pending", value |-> <<>>]

\* catch (error) { this.handleError(error); }: the operation rejects with what
\* handleError throws, and resolves with undefined if handleError returns.
Catch(op, error) ==
    LET t == handleErrorThrows(error)
    IN [op EXCEPT !.pc = "done",
                  !.thrown = <<error>>,
                  !.logged = op.logged \o handleErrorLines(error),
                  !.raised = t,
                  !.settled = IF t = <<>> THEN "resolved" ELSE "rejected"]

\* The operation issues a request and suspends at the await named pc.
Send(op, req, pc) == [op EXCEPT !.reqs = Append(op.reqs, req), !.pc = pc]

\* getUserProfile sending a POST with a payload.
FirstRequestProfilePost(kind, args) ==
    CASE kind = "text" ->
           Request("POST", PostsEndpoint, 0, getHeaders, TextPostData(args))
      [] kind = "article" ->
           Request("POST", PostsEndpoint, 0, getHeaders, ArticlePostData(args))
      [] kind = "image" ->
           Request("POST", RegisterEndpoint, 0, getHeaders, registerData)
      [] OTHER ->
           Request("POST", ProfileEndpoint, 0, getHeaders, TextPostData(args))

\* The first request of each kind of operation, after validateConfig.
FirstRequest(kind, args) ==
    CASE kind = "text" ->
           Request("POST", PostsEndpoint, 0, getHeaders, TextPostData(args))
      [] kind = "article" ->
           Request("POST", PostsEndpoint, 0, getHeaders, ArticlePostData(args))
      [] kind = "image" ->
           Request("POST", RegisterEndpoint, 0, getHeaders, registerData)
      [] OTHER ->
           Request("GET", ProfileEndpoint, 0, getHeaders, NoBody)

FirstAwait(kind) ==
    CASE kind = "image" -> "awaitRegister"
      [] kind = "profile" -> "awaitProfile"
      [] OTHER -> "awaitCreate"

\* The segment of a publisher operation from its call to its first await.
Begin(kind, args, owner) ==
    LET op == NewOp(kind, args, owner)
    IN IF validateConfig # <<>>
       THEN Catch(op, validateConfig[1])
       ELSE Send(op, FirstRequest(kind, args), FirstAwait(kind))

\* Transport requests a segment issued.
Issued(old, new) == Len(new.reqs) - Len(old.reqs)

\* The process runs and no synchronous code is being executed.
Idle == frame = 0 /\ exitCode = <<>>

\* A direct call of postTextUpdate, postArticle, postImage or getUserProfile.
Call(kind, args) ==
    /\ Idle
    /\ argv = <<>>
    /\ Len(ops) + Cardinality({j \in 1..Len(jobs) : jobs[j].op = 0}) < MaxOps
    /\ LET op == Begin(kind, args, 0)
       IN /\ ops' = Append(ops, op)
          /\ netCalls' = netCalls + Len(op.reqs)
    /\ UNCHANGED <<argv, exitCode, accessToken, personURN, jobs, now, frame, assetCount,
                   shareCount>>

\* The error of reading a property of undefined (a 2xx response whose data
\* lacks the fields the code reads).
TypeError == PlainError("Cannot read properties of undefined")

\* fs.readFileSync on a path that cannot be read.
FileError == PlainError("ENOENT: no such file or directory")

\* The response an operation receives: the outcome and, for a well-formed
\* 2xx response, the number n the remote side put in its data (the asset and
\* upload URL of a registration, the id of a created post).
Received(out, n) ==
    [ok |-> out.ok, shaped |-> out.shaped, error |-> out.error,
     data |-> IF out.ok /\ out.shaped THEN n ELSE 0]

\* uploadImage(uploadUrl, imagePath): read the file, then PUT its bytes.
uploadImage(op) ==
    LET r == [op EXCEPT !.reads = op.reads + 1]
    IN IF op.args.imagePath \notin ReadableFiles
       THEN Catch(r, FileError)
       ELSE Send(r, Request("PUT", UploadEndpoint, op.uploadUrl, uploadHeaders,
                            FileBytes(op.args.imagePath)),
                 "awaitUpload")

\* postImage going from the registration response straight to the post.
AfterRegisterSkipsUpload(op, out, n) ==
    LET resp == Received(out, n)
        r == [op EXCEPT !.resps = Append(op.resps, resp)]
    IN IF ~resp.ok THEN Catch(r, resp.error)
       ELSE IF ~resp.shaped THEN Catch(r, TypeError)
       ELSE Send([r EXCEPT !.uploadUrl = resp.data, !.asset = resp.data],
                 Request("POST", PostsEndpoint, 0, getHeaders,
                         ImagePostData(op.args, resp.data)),
                 "awaitCreate")

\* postImage going on to the upload whatever the registration ended with.
AfterRegisterIgnoresFailure(op, out, n) ==
    LET resp == Received(out, n)
        r == [op EXCEPT !.resps = Append(op.resps, resp)]
    IN uploadImage([r EXCEPT !.uploadUrl = resp.data, !.asset = resp.data])

\* postImage from the registration response to its next await: lines 144-149.
AfterRegister(op, out, n) ==
    LET resp == Received(out, n)
        r == [op EXCEPT !.resps = Append(op.resps, resp)]
    IN IF ~resp.ok THEN Catch(r, resp.error)
       ELSE IF ~resp.shaped THEN Catch(r, TypeError)
       ELSE uploadImage([r EXCEPT !.uploadUrl = resp.data, !.asset = resp.data])

\* postImage going on to the post whatever the upload ended with.
AfterUploadIgnoresFailure(op, out) ==
    LET r == [op EXCEPT !.resps = Append(op.resps, Received(out, 0))]
    IN Send(r, Request("POST", PostsEndpoint, 0, getHeaders,
                       ImagePostData(op.args, op.asset)),
            "awaitCreate")

\* postImage building its payload from the asset of the latest registration
\* of any operation.
AfterUploadSharedAsset(op, out) ==
    LET r == [op EXCEPT !.resps = Append(op.resps, Received(out, 0))]
    IN IF ~out.ok THEN Catch(r, out.error)
       ELSE Send(r, Request("POST", PostsEndpoint, 0, getHeaders,
                            ImagePostData(op.args, assetCount)),
                 "awaitCreate")

\* postImage from the upload response to its next await: lines 149-176.
AfterUpload(op, out) ==
    LET r == [op EXCEPT !.resps = Append(op.resps, Received(out, 0))]
    IN IF ~out.ok THEN Catch(r, out.error)
       ELSE Send(r, Request("POST", PostsEndpoint, 0, getHeaders,
                            ImagePostData(op.args, op.asset)),
                 "awaitCreate")

SuccessText(kind) ==
    CASE kind = "text" -> "Successfully posted to LinkedIn!"
      [] kind = "article" -> "Successfully posted article to LinkedIn!"
      [] kind = "image" -> "Successfully posted image to LinkedIn!"
      [] OTHER -> "User Profile:"

\* response.data of a 2xx response to the last request: the object the remote
\* side sent, whose id is n.
ResponseData(n) == [id |-> n]

\* A publisher operation sending its last request again after a failure.
AfterLastRetries(op, out, n) ==
    LET resp == Received(out, n)
        r == [op EXCEPT !.resps = Append(op.resps, resp)]
        id == resp.data
    IN IF ~resp.ok
       THEN IF \A k \in 1..Len(op.resps) : op.resps[k].ok
            THEN Send(r, op.reqs[Len(op.reqs)], op.pc)
            ELSE Catch(r, resp.error)
       ELSE [r EXCEPT !.pc = "done", !.settled = "resolved",
                      !.value = <<ResponseData(id)>>,
                      !.logged =
                          IF op.kind = "profile"
                          THEN r.logged \o <<Line(SuccessText(op.kind), id, "")>>
                          ELSE r.logged \o <<Line(SuccessText(op.kind), 0, ""),
                                             Line("Post ID:", id, "")>>]

\* A publisher operation that records the last response and never settles.
AfterLastHangs(op, out, n) ==
    [op EXCEPT !.resps = Append(op.resps, Received(out, n)), !.pc = "done"]

\* A publisher operation that logs its success and returns nothing.
AfterLastReturnsNothing(op, out, n) ==
    LET resp == Received(out, n)
        r == [op EXCEPT !.resps = Append(op.resps, resp)]
        id == resp.data
    IN IF ~resp.ok THEN Catch(r, resp.error)
       ELSE [r EXCEPT !.pc = "done", !.settled = "resolved",
                      !.logged =
                          IF op.kind = "profile"
                          THEN r.logged \o <<Line(SuccessText(op.kind), id, "")>>
                          ELSE r.logged \o <<Line(SuccessText(op.kind), 0, ""),
                                             Line("Post ID:", id, "")>>]

\* A publisher operation from the response of its last request to its end:
\* it logs and returns response.data, whose id is n when the data is well
\* formed.
AfterLast(op, out, n) ==
    LET resp == Received(out, n)
        r == [op EXCEPT !.resps = Append(op.resps, resp)]
        id == resp.data
    IN IF ~resp.ok THEN Catch(r, resp.error)
       ELSE [r EXCEPT !.pc = "done", !.settled = "resolved",
                      !.value = <<ResponseData(id)>>,
                      !.logged =
                          IF op.kind = "profile"
                          THEN r.logged \o <<Line(SuccessText(op.kind), id, "")>>
                          ELSE r.logged \o <<Line(SuccessText(op.kind), 0, ""),
                                             Line("Post ID:", id, "")>>]

\* The registration request of operation i settles.
RegisterSettles(i, out) ==
    /\ Idle
    /\ ops[i].pc = "awaitRegister"
    /\ LET n == assetCount + 1
           op == AfterRegister(ops[i], out, n)
       IN /\ ops' = [ops EXCEPT ![i] = op]
          /\ netCalls' = netCalls + Issued(ops[i], op)
          /\ assetCount' = IF out.ok THEN n ELSE assetCount
    /\ UNCHANGED <<argv, exitCode, accessToken, personURN, jobs, now, frame, shareCount>>

\* The binary upload of operation i settles.
UploadSettles(i, out) ==
    /\ Idle
    /\ ops[i].pc = "awaitUpload"
    /\ LET op == AfterUpload(ops[i], out)
       IN /\ ops' = [ops EXCEPT ![i] = op]
          /\ netCalls' = netCalls + Issued(ops[i], op)
    /\ UNCHANGED <<argv, exitCode, accessToken, personURN, jobs, now, frame, assetCount,
                   shareCount>>

\* The create-post request of operation i settles.
CreateSettles(i, out) ==
    /\ Idle
    /\ ops[i].pc = "awaitCreate"
    /\ LET n == shareCount + 1
           op == AfterLast(ops[i], out, n)
       IN /\ ops' = [ops EXCEPT ![i] = op]
          /\ netCalls' = netCalls + Issued(ops[i], op)
          /\ shareCount' = IF out.ok THEN n ELSE shareCount
    /\ UNCHANGED <<argv, exitCode, accessToken, personURN, jobs, now, frame, assetCount>>

\* The profile request of operation i settles.
ProfileSettles(i, out) ==
    /\ Idle
    /\ ops[i].pc = "awaitProfile"
    /\ LET op == AfterLast(ops[i], out, 1)
       IN /\ ops' = [ops EXCEPT ![i] = op]
          /\ netCalls' = netCalls + Issued(ops[i], op)
    /\ UNCHANGED <<argv, exitCode, accessToken, personURN, jobs, now, frame, assetCount,
                   shareCount>>

\* ---------------------------------------------------------------- scheduler
\* The post configurations handed to schedulePost: a type tag and the fields
\* of a request of that type ("other": a tag the callback does not know).
Config(type, a) ==
    [type |-> type, text |-> a.text, articleUrl |-> a.articleUrl,
     articleTitle |-> a.articleTitle,
     articleDescription |-> a.articleDescription,
     imagePath |-> a.imagePath, visibility |-> a.visibility]

Configs ==
    {Config("text", a) : a \in ArgsOf("text")}
    \cup {Config("article", Args("T", "https://a", "Title", "D", "", "CONNECTIONS")),
          Config("image", Args("T", "", "", "", "/tmp/x.jpg", "CONNECTIONS")),
          Config("other", Args("T", "https://a", "Title", "D", "/tmp/x.jpg", Undefined))}

Instants == 0..MaxTime

\* schedule.scheduleJob(scheduledTime, callback) of node-schedule with a Date:
\* a one-shot timer is registered when the date is not earlier than the
\* current time; for an earlier date nothing is registered and the returned
\* handle is null.
scheduleJob(scheduledTime) ==
    IF scheduledTime >= now THEN "pending" ELSE "dropped"

\* A job.
\*   state     "pending", "fired", "cancelled", or "dropped" (never
\*             registered)
\*   returned  schedulePost has returned to its caller
\*   firedAt   the instant the callback was invoked
\*   body      the callback's async body: "none" before it is invoked, then
\*             "running", then "resolved" or "rejected"
\*   op        the publisher operation the callback called (0: none)
\*   cancelCall  what the job was doing when cancel() was called on its
\*             handle: "none" (not called), "pending", "running" or "ended"
NewJob(postConfig, scheduledTime) ==
    [config |-> postConfig, firesAt |-> scheduledTime, registeredAt |-> now,
     state |-> scheduleJob(scheduledTime), returned |-> FALSE, firedAt |-> 0,
     body |-> "none", op |-> 0, cancelCall |-> "none"]

\* schedulePost calling validateConfig first and throwing what it throws.
SchedulePostCallValidates(postConfig, scheduledTime) ==
    /\ Idle
    /\ argv = <<>>
    /\ validateConfig = <<>>
    /\ Len(ops) + Cardinality({j \in 1..Len(jobs) : jobs[j].op = 0}) < MaxOps
    /\ jobs' = Append(jobs, NewJob(postConfig, scheduledTime))
    /\ frame' = Len(jobs) + 1
    /\ UNCHANGED <<argv, exitCode, accessToken, personURN, ops, now, netCalls,
                   assetCount, shareCount>>

\* schedulePost up to and including the call of schedule.scheduleJob.
SchedulePostCall(postConfig, scheduledTime) ==
    /\ Idle
    /\ argv = <<>>
    /\ Len(ops) + Cardinality({j \in 1..Len(jobs) : jobs[j].op = 0}) < MaxOps
    /\ jobs' = Append(jobs, NewJob(postConfig, scheduledTime))
    /\ frame' = Len(jobs) + 1
    /\ UNCHANGED <<argv, exitCode, accessToken, personURN, ops, now, netCalls, assetCount,
                   shareCount>>

\* return job.
SchedulePostReturn ==
    /\ frame # 0
    /\ jobs' = [jobs EXCEPT ![frame].returned = TRUE]
    /\ frame' = 0
    /\ UNCHANGED <<argv, exitCode, accessToken, personURN, ops, now, netCalls, assetCount,
                   shareCount>>

\* Time passes.
Tick ==
    /\ now < MaxTime
    /\ now' = now + 1
    /\ UNCHANGED <<argv, exitCode, accessToken, personURN, ops, jobs, frame, netCalls,
                   assetCount, shareCount>>

\* A timer that fires without waiting for its instant.
TimerMayFireEarly(j) ==
    /\ Idle
    /\ jobs[j].state = "pending"

\* A timer whose callback is invoked from inside scheduleJob when it is due.
TimerMayFireInline(j) ==
    /\ jobs[j].state = "pending"
    /\ now >= jobs[j].firesAt

\* A timer that waits until no other callback is running.
TimerMayFireWhenQuiet(j) ==
    /\ Idle
    /\ jobs[j].state = "pending"
    /\ now >= jobs[j].firesAt
    /\ \A k \in 1..Len(jobs) : jobs[k].body # "running"

\* A timer that fires whether or not it was cancelled.
TimerMayFireCancelled(j) ==
    /\ Idle
    /\ jobs[j].state \in {"pending", "cancelled"}
    /\ now >= jobs[j].firesAt

\* The timer of job j may invoke its callback: the timer is registered and
\* has not fired, its instant has come, and no synchronous code is running.
TimerMayFire(j) ==
    /\ Idle
    /\ jobs[j].state = "pending"
    /\ now >= jobs[j].firesAt

\* An if-chain whose last branch takes every remaining type tag.
DispatchElseText(type) ==
    CASE type = "article" -> "article"
      [] type = "image" -> "image"
      [] OTHER -> "text"

\* The publisher method the callback calls for a type tag ("none": no branch
\* of the if-chain matches).
Dispatch(type) ==
    CASE type = "text" -> "text"
      [] type = "article" -> "article"
      [] type = "image" -> "image"
      [] OTHER -> "none"

\* The arguments the callback passes to that method.
DispatchArgs(c) ==
    CASE c.type = "text" -> Args(c.text, "", "", "", "", c.visibility)
      [] c.type = "article" ->
           Args(c.text, c.articleUrl, c.articleTitle, c.articleDescription,
                "", c.visibility)
      [] c.type = "image" -> Args(c.text, "", "", "", c.imagePath, c.visibility)
      [] OTHER -> NoArgs

\* The timer of job j fires: the callback runs to its first await, or to its
\* end when no branch matches.
Fire(j) ==
    /\ TimerMayFire(j)
    /\ LET c == jobs[j].config
           m == Dispatch(c.type)
           op == Begin(m, DispatchArgs(c), j)
       IN IF m = "none"
          THEN /\ jobs' = [jobs EXCEPT ![j].state = "fired",
                                       ![j].firedAt = now,
                                       ![j].body = "resolved"]
               /\ UNCHANGED <<ops, netCalls>>
          ELSE /\ jobs' = [jobs EXCEPT ![j].state = "fired",
                                       ![j].firedAt = now,
                                       ![j].body = "running",
                                       ![j].op = Len(ops) + 1]
               /\ ops' = Append(ops, op)
               /\ netCalls' = netCalls + Len(op.reqs)
    /\ UNCHANGED <<argv, exitCode, accessToken, personURN, now, frame, assetCount, shareCount>>

\* How the callback's body ends when the operation it awaits has settled:
\* the await is not inside a try block, so a rejection leaves the body.
AwaitInCallback(settled) ==
    IF settled = "rejected" THEN "rejected" ELSE "resolved"

\* The callback of job j resumes after its await.
Resume(j) ==
    /\ Idle
    /\ jobs[j].body = "running"
    /\ ops[jobs[j].op].settled # "pending"
    /\ jobs' = [jobs EXCEPT ![j].body = AwaitInCallback(ops[jobs[j].op].settled)]
    /\ UNCHANGED <<argv, exitCode, accessToken, personURN, ops, now, frame, netCalls,
                   assetCount, shareCount>>

\* The caller of schedulePost calls cancel() on the handle it was returned:
\* a timer that has not fired is cleared; after the callback was invoked
\* there is no timer left to clear and nothing else the call touches.  A
\* dropped job has the handle null and the command line discards the handle,
\* so neither can be cancelled.
Cancel(j) ==
    /\ Idle
    /\ argv = <<>>
    /\ jobs[j].returned
    /\ jobs[j].state # "dropped"
    /\ jobs[j].cancelCall = "none"
    /\ jobs' = [jobs EXCEPT
                   ![j].state = IF @ = "pending" THEN "cancelled" ELSE @,
                   ![j].cancelCall =
                       IF jobs[j].state = "pending" THEN "pending"
                       ELSE IF jobs[j].body = "running" THEN "running"
                       ELSE "ended"]
    /\ UNCHANGED <<argv, exitCode, accessToken, personURN, ops, now, frame,
                   netCalls, assetCount, shareCount>>

\* --------------------------------------------------------------------- CLI
Commands == {"post", "post-article", "post-image", "profile", "schedule"}

\* The strings given to --time: two ISO 8601 datetimes, one second apart, and
\* a string that is not a datetime.
TimeStrings == {"2025-11-10T14:00:00", "2025-11-10T14:00:01", "tomorrow"}

\* The options object commander hands to an action: a flag that was not given
\* is undefined, except --visibility, which has the default 'PUBLIC'.
Options(text, url, title, description, image, time, visibility) ==
    [text |-> text, url |-> url, title |-> title, description |-> description,
     image |-> image, time |-> time, visibility |-> visibility]

CliVisibilities == {"PUBLIC", "CONNECTIONS"}

\* The command lines of each command.
PostOptions ==
    {Options(t, Undefined, Undefined, Undefined, Undefined, Undefined, v) :
         t \in {Undefined, "T"}, v \in CliVisibilities}

ArticleOptions ==
    {Options(t, u, ti, d, Undefined, Undefined, "PUBLIC") :
         t \in {Undefined, "T"}, u \in {Undefined, "https://a"},
         ti \in {Undefined, "Title"}, d \in {Undefined, "D"}}

ImageOptions ==
    {Options(t, Undefined, Undefined, Undefined, i, Undefined, "PUBLIC") :
         t \in {Undefined, "T"}, i \in {Undefined} \cup ImagePaths}

ScheduleOptions ==
    {Options(t, Undefined, Undefined, Undefined, Undefined, ts, v) :
         t \in {Undefined, "T"}, ts \in {Undefined} \cup TimeStrings,
         v \in CliVisibilities}

ProfileOptions ==
    {Options(Undefined, Undefined, Undefined, Undefined, Undefined, Undefined,
             Undefined)}

OptionsOf(cmd) ==
    CASE cmd = "post" -> PostOptions
      [] cmd = "post-article" -> ArticleOptions
      [] cmd = "post-image" -> ImageOptions
      [] cmd = "schedule" -> ScheduleOptions
      [] OTHER -> ProfileOptions

\* post-article testing only --text and --url.
MissingRequiredForgetsTitle(cmd, o) ==
    CASE cmd = "post" -> Falsy(o.text)
      [] cmd = "post-article" -> Falsy(o.text) \/ Falsy(o.url)
      [] cmd = "post-image" -> Falsy(o.text) \/ Falsy(o.image)
      [] cmd = "schedule" -> Falsy(o.text) \/ Falsy(o.time)
      [] OTHER -> FALSE

\* The test each action makes of its options before anything else.
MissingRequired(cmd, o) ==
    CASE cmd = "post" -> Falsy(o.text)
      [] cmd = "post-article" -> Falsy(o.text) \/ Falsy(o.url) \/ Falsy(o.title)
      [] cmd = "post-image" -> Falsy(o.text) \/ Falsy(o.image)
      [] cmd = "schedule" -> Falsy(o.text) \/ Falsy(o.time)
      [] OTHER -> FALSE

\* new Date(options.time): nan is isNaN(scheduledTime.getTime()), time is the
\* instant of a datetime that parses.
InvalidDate == [nan |-> TRUE, time |-> 0]
DateAtZero == [nan |-> FALSE, time |-> 0]
DateAtOne == [nan |-> FALSE, time |-> 1]

ParseDate(s) ==
    CASE s = "2025-11-10T14:00:00" -> DateAtZero
      [] s = "2025-11-10T14:00:01" -> DateAtOne
      [] OTHER -> InvalidDate

\* The publisher method a command calls.
CommandKind(cmd) ==
    CASE cmd = "post" -> "text"
      [] cmd = "post-article" -> "article"
      [] cmd = "post-image" -> "image"
      [] OTHER -> "profile"

\* The arguments a command passes to that method.
CommandArgs(cmd, o) ==
    CASE cmd = "post" -> Args(o.text, "", "", "", "", o.visibility)
      [] cmd = "post-article" ->
           Args(o.text, o.url, o.title,
                IF Falsy(o.description) THEN "" ELSE o.description,
                "", o.visibility)
      [] cmd = "post-image" -> Args(o.text, "", "", "", o.image, o.visibility)
      [] OTHER -> NoArgs

\* program.parse(process.argv) runs the action of the command given on the
\* command line, up to its first await or to process.exit.
Command(cmd, o) ==
    /\ Idle
    /\ argv = <<>>
    /\ ops = <<>>
    /\ jobs = <<>>
    /\ argv' = <<[cmd |-> cmd, options |-> o]>>
    /\ IF MissingRequired(cmd, o)
       THEN /\ exitCode' = <<1>>
            /\ UNCHANGED <<ops, jobs, frame, netCalls>>
       ELSE IF cmd = "schedule"
       THEN LET scheduledTime == ParseDate(o.time)
                postConfig == Config("text",
                                     Args(o.text, "", "", "", "", o.visibility))
            IN IF scheduledTime.nan
               THEN /\ exitCode' = <<1>>
                    /\ UNCHANGED <<ops, jobs, frame, netCalls>>
               ELSE /\ jobs' = Append(jobs, NewJob(postConfig, scheduledTime.time))
                    /\ frame' = Len(jobs) + 1
                    /\ UNCHANGED <<exitCode, ops, netCalls>>
       ELSE LET op == Begin(CommandKind(cmd), CommandArgs(cmd, o), 0)
            IN /\ ops' = Append(ops, op)
               /\ netCalls' = netCalls + Len(op.reqs)
               /\ UNCHANGED <<exitCode, jobs, frame>>
    /\ UNCHANGED <<accessToken, personURN, now, assetCount, shareCount>>

Init ==
    /\ accessToken \in TokenValues
    /\ personURN \in ActorValues
    /\ ops = <<>>
    /\ jobs = <<>>
    /\ now = 0
    /\ frame = 0
    /\ netCalls = 0
    /\ assetCount = 0
    /\ shareCount = 0
    /\ argv = <<>>
    /\ exitCode = <<>>

Next ==
    \/ \E k \in Kinds : \E a \in ArgsOf(k) : Call(k, a)
    \/ \E i \in 1..Len(ops) : \E out \in RegisterOutcomes : RegisterSettles(i, out)
    \/ \E i \in 1..Len(ops) : \E out \in Outcomes : UploadSettles(i, out)
    \/ \E i \in 1..Len(ops) : \E out \in Outcomes : CreateSettles(i, out)
    \/ \E i \in 1..Len(ops) : \E out \in Outcomes : ProfileSettles(i, out)
    \/ \E c \in Configs : \E t \in Instants : SchedulePostCall(c, t)
    \/ SchedulePostReturn
    \/ Tick
    \/ \E j \in 1..Len(jobs) : Fire(j)
    \/ \E j \in 1..Len(jobs) : Resume(j)
    \/ \E cmd \in Commands : \E o \in OptionsOf(cmd) : Command(cmd, o)
    \/ \E j \in 1..Len(jobs) : Cancel(j)

Spec == Init /\ [][Next]_vars

\* Every transport request is eventually answered, and the runtime
\* eventually runs each continuation that is ready: the rest of schedulePost
\* after scheduleJob, and the callback after the operation it awaits.
Fairness ==
    /\ \A i \in 1..MaxOps :
        /\ WF_vars(i <= Len(ops) /\ \E out \in RegisterOutcomes : RegisterSettles(i, out))
        /\ WF_vars(i <= Len(ops) /\ \E out \in Outcomes : UploadSettles(i, out))
        /\ WF_vars(i <= Len(ops) /\ \E out \in Outcomes : CreateSettles(i, out))
        /\ WF_vars(i <= Len(ops) /\ \E out \in Outcomes : ProfileSettles(i, out))
        /\ WF_vars(i <= Len(jobs) /\ Resume(i))
    /\ WF_vars(SchedulePostReturn)

\* The module used by a program that calls the publisher methods and
\* schedulePost and keeps no handle to cancel.
NextLive ==
    \/ \E k \in Kinds : \E a \in ArgsOf(k) : Call(k, a)
    \/ \E i \in 1..Len(ops) : \E out \in RegisterOutcomes : RegisterSettles(i, out)
    \/ \E i \in 1..Len(ops) : \E out \in Outcomes : UploadSettles(i, out)
    \/ \E i \in 1..Len(ops) : \E out \in Outcomes : CreateSettles(i, out)
    \/ \E i \in 1..Len(ops) : \E out \in Outcomes : ProfileSettles(i, out)
    \/ \E c \in Configs : \E t \in Instants : SchedulePostCall(c, t)
    \/ SchedulePostReturn
    \/ Tick
    \/ \E j \in 1..Len(jobs) : Fire(j)
    \/ \E j \in 1..Len(jobs) : Resume(j)

LiveSpec == Init /\ [][NextLive]_vars /\ Fairness

\* ------------------------------------------- the pipeline steps, called directly
\* registerImageUpload() and uploadImage(uploadUrl, imagePath) are methods of
\* the exported class like the others.  Neither has a try block, calls
\* validateConfig or calls handleError: what the transport or the file read
\* throws is what the call rejects with, unlogged.
PipelineKinds == {"register", "upload"}

\* The arguments of a direct call of each step: the upload URL is the number
\* of a one-time URL.
UploadArgs == {[uploadUrl |-> 1, imagePath |-> p] : p \in ImagePaths}
RegisterArgs == {[uploadUrl |-> 0, imagePath |-> ""]}

PipelineArgsOf(kind) == IF kind = "upload" THEN UploadArgs ELSE RegisterArgs

\* The operation rejects with the error as it is.
Reject(op, error) ==
    [op EXCEPT !.pc = "done", !.raised = <<error>>, !.settled = "rejected"]

\* A direct call from its start to its first await.
BeginStep(kind, a) ==
    LET op == NewOp(kind, Args("", "", "", "", a.imagePath, Undefined), 0)
    IN IF kind = "register"
       THEN Send(op, Request("POST", RegisterEndpoint, 0, getHeaders, registerData),
                 "awaitStep")
       ELSE LET r == [op EXCEPT !.reads = 1, !.uploadUrl = a.uploadUrl]
            IN IF a.imagePath \notin ReadableFiles
               THEN Reject(r, FileError)
               ELSE Send(r, Request("PUT", UploadEndpoint, a.uploadUrl,
                                    uploadHeaders, FileBytes(a.imagePath)),
                         "awaitStep")

\* A direct call from the response of its request to its end:
\* registerImageUpload returns response.data, uploadImage returns nothing.
AfterStep(op, out, n) ==
    LET resp == Received(out, n)
        r == [op EXCEPT !.resps = Append(op.resps, resp)]
    IN IF ~resp.ok THEN Reject(r, resp.error)
       ELSE [r EXCEPT !.pc = "done", !.settled = "resolved",
                      !.value = IF op.kind = "register"
                                THEN <<ResponseData(resp.data)>> ELSE <<>>]

\* A direct call of registerImageUpload or uploadImage.
CallStep(kind, a) ==
    /\ Idle
    /\ argv = <<>>
    /\ Len(ops) < MaxOps
    /\ LET op == BeginStep(kind, a)
       IN /\ ops' = Append(ops, op)
          /\ netCalls' = netCalls + Len(op.reqs)
    /\ UNCHANGED <<argv, exitCode, accessToken, personURN, jobs, now, frame,
                   assetCount, shareCount>>

\* The request of the direct call i settles.
StepSettles(i, out) ==
    /\ Idle
    /\ ops[i].pc = "awaitStep"
    /\ (~out.shaped) => ops[i].kind = "register"
    /\ LET registered == ops[i].kind = "register" /\ out.ok
           op == AfterStep(ops[i], out, assetCount + 1)
       IN /\ ops' = [ops EXCEPT ![i] = op]
          /\ assetCount' = IF registered THEN assetCount + 1 ELSE assetCount
    /\ UNCHANGED <<argv, exitCode, accessToken, personURN, jobs, now, frame,
                   netCalls, shareCount>>

NextPipeline ==
    \/ \E k \in PipelineKinds : \E a \in PipelineArgsOf(k) : CallStep(k, a)
    \/ \E i \in 1..Len(ops) : \E out \in RegisterOutcomes : StepSettles(i, out)

\* The program used through its two pipeline steps only.
PipelineSpec == Init /\ [][NextPipeline]_vars

\* ================================================================== claims
OpIds == 1..Len(ops)
JobIds == 1..Len(jobs)

ConfigInvalid == Falsy(accessToken) \/ Falsy(personURN)

IsRegister(r) == r.method = "POST" /\ r.url = RegisterEndpoint
IsUpload(r) == r.method = "PUT" /\ r.url = UploadEndpoint
IsCreate(r) == r.method = "POST" /\ r.url = PostsEndpoint

\* The registration of an image operation got a well-formed 2xx response.
RegistrationSucceeded(op) ==
    /\ op.kind = "image"
    /\ Len(op.resps) >= 1
    /\ op.resps[1].ok
    /\ op.resps[1].shaped

\* C1: a postImage that succeeds has issued exactly three requests: the
\* register-upload POST, the PUT to the upload URL the registration
\* returned, the create-post POST, in this order; and at every moment the
\* PUT has been issued only after the registration response arrived, the
\* create-post POST only after the PUT succeeded.
C1_ImageRequestsInOrder ==
    \A i \in OpIds :
        LET op == ops[i]
        IN op.kind = "image" =>
            /\ Len(op.reqs) >= 1 => IsRegister(op.reqs[1])
            /\ Len(op.reqs) >= 2 =>
                   /\ RegistrationSucceeded(op)
                   /\ IsUpload(op.reqs[2])
                   /\ op.reqs[2].upload = op.resps[1].data
            /\ Len(op.reqs) >= 3 =>
                   /\ Len(op.resps) >= 2
                   /\ op.resps[2].ok
                   /\ IsCreate(op.reqs[3])
            /\ Len(op.reqs) <= 3
            /\ op.settled = "resolved" => Len(op.reqs) = 3

C1_Witness ==
    \E i \in OpIds :
        /\ ops[i].kind = "image"
        /\ ops[i].settled = "resolved"
        /\ Len(ops[i].reqs) = 3

\* The upload phase of an image operation failed after its registration
\* succeeded: the file could not be read, or the PUT settled with an error.
UploadFailed(op) ==
    /\ RegistrationSucceeded(op)
    /\ \/ op.args.imagePath \notin ReadableFiles
       \/ Len(op.resps) >= 2 /\ ~op.resps[2].ok

\* C2: when registration succeeded and the upload phase failed, no
\* create-post request is issued for that post and the call fails.
C2_UploadFailureAborts ==
    \A i \in OpIds :
        UploadFailed(ops[i]) =>
            /\ \A k \in 1..Len(ops[i].reqs) : ~IsCreate(ops[i].reqs[k])
            /\ ops[i].settled = "rejected"

C2_Witness ==
    /\ \E i \in OpIds :
           /\ UploadFailed(ops[i])
           /\ Len(ops[i].resps) = 2
           /\ ~ops[i].resps[2].ok
    /\ \E i \in OpIds :
           /\ UploadFailed(ops[i])
           /\ ops[i].args.imagePath \notin ReadableFiles

\* C3: when the registration request fails, postImage issues no PUT and no
\* create-post request (the registration is its only request), does not
\* read the image file, and fails.
C3_RegistrationFailureAborts ==
    \A i \in OpIds :
        LET op == ops[i]
        IN (op.kind = "image" /\ Len(op.resps) >= 1 /\ ~op.resps[1].ok) =>
            /\ Len(op.reqs) = 1
            /\ IsRegister(op.reqs[1])
            /\ op.reads = 0
            /\ op.settled = "rejected"

C3_Witness ==
    \E i \in OpIds :
        /\ ops[i].kind = "image"
        /\ Len(ops[i].resps) = 1
        /\ ~ops[i].resps[1].ok
        /\ ops[i].args.imagePath \in ReadableFiles

\* C4: with the access token or the actor identifier missing or empty,
\* every publisher operation fails and no transport request is ever issued.
C4_InvalidConfigNoNetwork ==
    ConfigInvalid =>
        /\ netCalls = 0
        /\ \A i \in OpIds :
               /\ ops[i].reqs = <<>>
               /\ ops[i].settled = "rejected"

C4_Witness ==
    /\ ~Falsy(accessToken)
    /\ personURN = ""
    /\ \E i \in OpIds : ops[i].kind = "image" /\ ops[i].owner = 0
    /\ \E i \in OpIds : ops[i].kind = "profile"

\* A job whose fire time was not later than the clock when schedulePost was
\* called, and one whose fire time was later.
ScheduledInPast(job) == job.firesAt <= job.registeredAt
ScheduledInFuture(job) == job.firesAt > job.registeredAt

\* C5: a job scheduled with a fire time in the past or equal to the current
\* time is not dropped: its timer is registered (and so fires at the next
\* opportunity).
C5_PastTimeNotDropped ==
    \A j \in JobIds :
        ScheduledInPast(jobs[j]) => jobs[j].state # "dropped"

\* The operations the callback of job j has started.
OpsOf(j) == {i \in OpIds : ops[i].owner = j}

KnownTypes == {"text", "article", "image"}

\* The operation was called with the fields of configuration c that its
\* type's method takes.
CalledWith(op, c) ==
    /\ op.kind = c.type
    /\ op.args.text = c.text
    /\ op.args.visibility = c.visibility
    /\ c.type = "article" =>
           /\ op.args.articleUrl = c.articleUrl
           /\ op.args.articleTitle = c.articleTitle
           /\ op.args.articleDescription = c.articleDescription
    /\ c.type = "image" => op.args.imagePath = c.imagePath

\* C6: a job scheduled with a future fire time and a type tag of text,
\* article or image has started no operation while it is pending; it fires
\* no earlier than its fire time; and once fired it has started exactly one
\* operation, the one of its type with the fields of its configuration.
C6_FiresOnceNotBefore ==
    \A j \in JobIds :
        LET job == jobs[j]
        IN (ScheduledInFuture(job) /\ job.config.type \in KnownTypes) =>
            /\ job.state # "dropped"
            /\ job.state = "pending" => OpsOf(j) = {}
            /\ job.state = "fired" =>
                   /\ job.firedAt >= job.firesAt
                   /\ Cardinality(OpsOf(j)) = 1
                   /\ \A i \in OpsOf(j) : CalledWith(ops[i], job.config)

C6_Witness ==
    \E j \in JobIds :
        /\ ScheduledInFuture(jobs[j])
        /\ jobs[j].config.type = "image"
        /\ jobs[j].state = "fired"
        /\ \E i \in OpsOf(j) : ops[i].settled = "resolved"

\* C7: schedulePost issues no transport request, and it has returned before
\* the job it registered starts an operation (so before the job's first
\* transport request).
C7_ScheduleReturnsFirst ==
    /\ [](\A j \in JobIds : ~jobs[j].returned => OpsOf(j) = {})
    /\ [][(frame # 0 \/ frame' # 0) => netCalls' = netCalls]_vars

C7_Witness ==
    \E j \in JobIds :
        /\ jobs[j].returned
        /\ jobs[j].firesAt = jobs[j].registeredAt
        /\ \E i \in OpsOf(j) : Len(ops[i].reqs) >= 1

\* C8: a fired job's failure stays inside the job: the callback's body never
\* ends by raising the error of its post operation.
C8_JobFailureContained ==
    \A j \in JobIds : jobs[j].body # "rejected"

\* The failure a publisher operation has met, read off its history (a
\* sequence of at most one error): the configuration error, the error of a
\* failed request, the malformed registration response, the unreadable file.
FailureOf(op) ==
    IF ConfigInvalid
    THEN <<PlainError(IF Falsy(accessToken)
                      THEN "LINKEDIN_ACCESS_TOKEN is not set in .env file"
                      ELSE "LINKEDIN_PERSON_URN is not set in .env file")>>
    ELSE IF \E k \in 1..Len(op.resps) : ~op.resps[k].ok
    THEN <<op.resps[Len(op.resps)].error>>
    ELSE IF op.kind = "image" /\ Len(op.resps) >= 1 /\ ~op.resps[1].shaped
    THEN <<PlainError("Cannot read properties of undefined")>>
    ELSE IF op.kind = "image" /\ Len(op.resps) >= 1
            /\ op.args.imagePath \notin ReadableFiles
    THEN <<PlainError("ENOENT: no such file or directory")>>
    ELSE <<>>

ErrorHeads ==
    {"LinkedIn API Error:", "No response received from LinkedIn API", "Error:"}

\* The diagnostics an operation has logged, by their first line.
HeadsLogged(op) ==
    {op.logged[k].text : k \in 1..Len(op.logged)} \cap ErrorHeads

\* C9: a publisher operation that has met a failure has logged a diagnostic
\* and rejected with that same error; it never resolves after a failure.
C9_FailureReraised ==
    \A i \in OpIds :
        FailureOf(ops[i]) # <<>> =>
            /\ ops[i].settled = "rejected"
            /\ ops[i].raised = FailureOf(ops[i])
            /\ HeadsLogged(ops[i]) # {}

C9_Witness ==
    /\ \E i \in OpIds :
           /\ ops[i].kind = "image"
           /\ Len(ops[i].resps) = 3
           /\ FailureOf(ops[i]) # <<>>
    /\ \E i \in OpIds :
           /\ ops[i].kind = "profile"
           /\ FailureOf(ops[i]) # <<>>

\* Some line of the operation's log has this text, number and argument.
Logged(op, text, num, arg) ==
    \E k \in 1..Len(op.logged) :
        op.logged[k] = [text |-> text, num |-> num, arg |-> arg]

\* C10: a failure is logged in exactly one of three shapes: with a response,
\* as an API error with its status and body; else with a request, as no
\* response received; else as a plain error with its message.  The error
\* re-raised is the failure itself in all three.
C10_ErrorClassified ==
    \A i \in OpIds :
        \A k \in 1..Len(FailureOf(ops[i])) :
            LET e == FailureOf(ops[i])[k]
                op == ops[i]
            IN /\ e.response.present =>
                      /\ HeadsLogged(op) = {"LinkedIn API Error:"}
                      /\ Logged(op, "Status:", e.response.status, "")
                      /\ Logged(op, "Message:", 0, e.response.data)
               /\ (~e.response.present /\ e.request) =>
                      /\ HeadsLogged(op) = {"No response received from LinkedIn API"}
                      /\ Logged(op, "", 0, e.message)
               /\ (~e.response.present /\ ~e.request) =>
                      /\ HeadsLogged(op) = {"Error:"}
                      /\ Logged(op, "Error:", 0, e.message)
               /\ op.raised = <<e>>

C10_Witness ==
    /\ \E i \in OpIds : \E k \in 1..Len(FailureOf(ops[i])) :
           /\ FailureOf(ops[i])[k].response.present
           /\ FailureOf(ops[i])[k].request
    /\ \E i \in OpIds : \E k \in 1..Len(FailureOf(ops[i])) :
           /\ ~FailureOf(ops[i])[k].response.present
           /\ FailureOf(ops[i])[k].request

\* C11 (as stated): a missing-credential failure is reported as a
\* configuration error, in none of the three shapes handleError gives an API,
\* a network or a client error.
C11_ConfigErrorDistinct ==
    ConfigInvalid => \A i \in OpIds : HeadsLogged(ops[i]) = {}

\* C11 (amended): a missing-credential failure is a plain error, with
\* neither a response nor a request, whose message names the missing
\* variable (the token when both are missing); it is reported in the shape
\* of a client error, "Error:" and the message, and never in the shape of an
\* API or a network error.
C11_ConfigErrorPlain ==
    ConfigInvalid =>
        \A i \in OpIds :
            LET msg == IF accessToken = Undefined \/ accessToken = ""
                       THEN "LINKEDIN_ACCESS_TOKEN is not set in .env file"
                       ELSE "LINKEDIN_PERSON_URN is not set in .env file"
            IN /\ HeadsLogged(ops[i]) = {"Error:"}
               /\ Logged(ops[i], "Error:", 0, msg)
               /\ Len(ops[i].raised) = 1
               /\ ~ops[i].raised[1].response.present
               /\ ~ops[i].raised[1].request
               /\ ops[i].raised[1].message = msg

C11_Witness ==
    /\ accessToken = ""
    /\ personURN = Undefined
    /\ \E i \in OpIds : ops[i].kind = "text" /\ ops[i].settled = "rejected"

IsProfile(r) == r.method = "GET" /\ r.url = ProfileEndpoint

\* The requests of an operation that satisfy P.
RequestsOf(op, P(_)) == {k \in 1..Len(op.reqs) : P(op.reqs[k])}

\* The payloads an operation submitted to the create-post endpoint.
Payloads(op) == {op.reqs[k].body : k \in RequestsOf(op, IsCreate)}

\* C12: within one call each endpoint is requested at most once: a text, an
\* article or a profile call issues at most one request, an image call at
\* most one registration, one upload and one create, and no request follows
\* a request that failed.
C12_NoRetry ==
    \A i \in OpIds :
        LET op == ops[i]
        IN /\ Cardinality(RequestsOf(op, IsRegister)) <= 1
           /\ Cardinality(RequestsOf(op, IsUpload)) <= 1
           /\ Cardinality(RequestsOf(op, IsCreate)) <= 1
           /\ Cardinality(RequestsOf(op, IsProfile)) <= 1
           /\ Len(op.reqs) <= (IF op.kind = "image" THEN 3 ELSE 1)
           /\ \A k \in 1..Len(op.resps) : ~op.resps[k].ok => Len(op.reqs) = k

C12_Witness ==
    /\ \E i \in OpIds :
        /\ ops[i].kind = "text"
        /\ ops[i].settled = "rejected"
        /\ Len(ops[i].resps) = 1
    /\ \E i \in OpIds :
        /\ ops[i].kind = "image"
        /\ ops[i].settled = "rejected"
        /\ Len(ops[i].resps) = 3

\* The media category of each post variant.
CategoryOf(kind) ==
    CASE kind = "text" -> "NONE"
      [] kind = "article" -> "ARTICLE"
      [] OTHER -> "IMAGE"

\* C13: every payload submitted to the create-post endpoint has the
\* configured actor as author, lifecycle state PUBLISHED, the visibility the
\* caller supplied, and the media category of its variant.
C13_PayloadFields ==
    \A i \in OpIds : \A b \in Payloads(ops[i]) :
        /\ b.author = personURN
        /\ b.lifecycleState = "PUBLISHED"
        /\ ops[i].args.visibility # Undefined =>
               b.visibility = ops[i].args.visibility
        /\ b.shareMediaCategory = CategoryOf(ops[i].kind)

C13_Witness ==
    \E i \in OpIds : \E b \in Payloads(ops[i]) :
        /\ ops[i].kind = "text"
        /\ ops[i].args.text = "T"
        /\ ops[i].args.visibility = "CONNECTIONS"
        /\ b.visibility = "CONNECTIONS"
        /\ b.shareMediaCategory = "NONE"

\* C14: a text payload has no media entry; an article payload has exactly
\* one, READY, carrying the supplied URL, title and description; an image
\* payload has exactly one, READY, whose media is the asset returned by the
\* registration of the same call.
C14_MediaEntries ==
    \A i \in OpIds : \A b \in Payloads(ops[i]) :
        LET op == ops[i]
        IN /\ op.kind = "text" => b.media = <<>>
           /\ op.kind = "article" =>
                  /\ Len(b.media) = 1
                  /\ b.media[1].status = "READY"
                  /\ b.media[1].originalUrl = op.args.articleUrl
                  /\ b.media[1].title = op.args.articleTitle
                  /\ b.media[1].description = op.args.articleDescription
           /\ op.kind = "image" =>
                  /\ Len(b.media) = 1
                  /\ b.media[1].status = "READY"
                  /\ RegistrationSucceeded(op)
                  /\ b.media[1].media = op.resps[1].data
                  /\ b.media[1].media # 0

C14_Witness ==
    /\ \E i \in OpIds : ops[i].kind = "image" /\ Payloads(ops[i]) # {}
    /\ \E i \in OpIds : ops[i].kind = "article" /\ Payloads(ops[i]) # {}

\* A post operation that resolved after a successful create-post request.
Posted(op) ==
    /\ op.kind \in KnownTypes
    /\ op.settled = "resolved"
    /\ Len(op.resps) = Len(op.reqs)
    /\ Len(op.resps) > 0
    /\ op.resps[Len(op.resps)].ok

\* C15 (as stated): a post operation whose create-post request succeeded
\* returns an object with the two fields id and raw, whose id is the id of
\* the response.
C15_ReturnsIdAndRaw ==
    \A i \in OpIds :
        Posted(ops[i]) =>
            /\ Len(ops[i].value) = 1
            /\ DOMAIN ops[i].value[1] = {"id", "raw"}
            /\ ops[i].value[1].id = ops[i].resps[Len(ops[i].resps)].data

\* C15 (amended): a post operation whose create-post request succeeded
\* returns the data of the response itself, an object whose id is the id the
\* remote side assigned; there is no wrapper with a raw field.
C15_ReturnsResponseData ==
    \A i \in OpIds :
        Posted(ops[i]) =>
            /\ Len(ops[i].value) = 1
            /\ DOMAIN ops[i].value[1] = {"id"}
            /\ ops[i].value[1].id = ops[i].resps[Len(ops[i].resps)].data
            /\ ops[i].value[1].id # 0

C15_Witness ==
    \E i \in OpIds :
        /\ ops[i].kind = "text"
        /\ Posted(ops[i])
        /\ ops[i].value = <<[id |-> 2]>>

\* C16: a payload built for a caller that supplied no visibility has
\* visibility PUBLIC, whether the call is direct or made by the callback of a
\* job whose configuration has no visibility.
C16_DefaultPublic ==
    \A i \in OpIds : \A b \in Payloads(ops[i]) :
        /\ ops[i].args.visibility = Undefined => b.visibility = "PUBLIC"
        /\ (ops[i].owner # 0 /\ jobs[ops[i].owner].config.visibility = Undefined)
               => b.visibility = "PUBLIC"

C16_Witness ==
    /\ \E i \in OpIds : \E b \in Payloads(ops[i]) :
        /\ ops[i].owner # 0
        /\ jobs[ops[i].owner].config.visibility = Undefined
        /\ b.visibility = "PUBLIC"
    /\ \E i \in OpIds : \E b \in Payloads(ops[i]) :
        /\ ops[i].owner = 0
        /\ ops[i].kind = "image"
        /\ ops[i].args.visibility = Undefined
        /\ b.visibility = "PUBLIC"

\* C17: with valid credentials getUserProfile issues exactly one request, a
\* GET to the profile endpoint carrying the bearer token and no body; it
\* issues no POST or PUT and reads no file.
C17_ProfileSingleGet ==
    ~ConfigInvalid =>
        \A i \in OpIds :
            ops[i].kind = "profile" =>
                /\ Len(ops[i].reqs) = 1
                /\ ops[i].reqs[1].method = "GET"
                /\ ops[i].reqs[1].url = ProfileEndpoint
                /\ ops[i].reqs[1].headers.Authorization = <<"Bearer", accessToken>>
                /\ ops[i].reqs[1].body = NoBody
                /\ ops[i].reads = 0

C17_Witness ==
    /\ ~ConfigInvalid
    /\ \E i \in OpIds : ops[i].kind = "profile" /\ ops[i].settled = "resolved"
    /\ \E i \in OpIds : ops[i].kind = "profile" /\ ops[i].settled = "rejected"

\* The image operations that have submitted a payload.
ImagePosts == {i \in OpIds : ops[i].kind = "image" /\ Payloads(ops[i]) # {}}

\* C19: however image operations interleave, each one uploads only after its
\* own registration response, to the upload URL of that response, and its
\* payload references the asset of that response; no two operations
\* reference the same asset.
C19_OwnRegistration ==
    /\ \A i \in OpIds :
        LET op == ops[i]
        IN op.kind = "image" =>
            /\ \A k \in RequestsOf(op, IsUpload) :
                /\ k = 2
                /\ RegistrationSucceeded(op)
                /\ op.reqs[k].upload = op.resps[1].data
            /\ \A b \in Payloads(op) : b.media[1].media = op.resps[1].data
    /\ \A i, j \in ImagePosts :
        i # j => \A b \in Payloads(ops[i]) : \A c \in Payloads(ops[j]) :
                     b.media[1].media # c.media[1].media

C19_Witness ==
    \E i, j \in ImagePosts :
        /\ i < j
        /\ ops[i].resps[1].data > ops[j].resps[1].data

\* The flags each command requires.
RequiredFlags(cmd) ==
    CASE cmd = "post" -> {"text"}
      [] cmd = "post-article" -> {"text", "url", "title"}
      [] cmd = "post-image" -> {"text", "image"}
      [] cmd = "schedule" -> {"text", "time"}
      [] OTHER -> {}

\* C18: a command started without one of its required flags has exited with
\* a non-zero status without calling a publisher method, registering a job
\* or issuing a request; the schedule command started with a --time that is
\* not a datetime has exited with a non-zero status and registered no job.
C18_CliRejectsBadInput ==
    \A k \in 1..Len(argv) :
        LET cmd == argv[k].cmd
            o == argv[k].options
        IN /\ (\E f \in RequiredFlags(cmd) : o[f] = Undefined) =>
                  /\ Len(exitCode) = 1
                  /\ exitCode[1] # 0
                  /\ ops = <<>>
                  /\ jobs = <<>>
                  /\ netCalls = 0
           /\ (cmd = "schedule" /\ ParseDate(o.time).nan) =>
                  /\ Len(exitCode) = 1
                  /\ exitCode[1] # 0
                  /\ ops = <<>>
                  /\ jobs = <<>>
                  /\ netCalls = 0

C18_Witness ==
    /\ Len(argv) = 1
    /\ argv[1].cmd = "schedule"
    /\ argv[1].options.text = "T"
    /\ argv[1].options.time = "tomorrow"
    /\ exitCode = <<1>>
    /\ jobs = <<>>
    /\ now = 1

\* C20: a registered job is pending, fired or cancelled; its state changes
\* only from pending, to fired or to cancelled; the callback of a pending or
\* cancelled job has not been invoked and no publisher operation was called
\* for it; cancel() on the handle of a fired job changes neither the job's
\* callback nor any publisher operation.
C20_JobLifecycle ==
    /\ [](\A j \in JobIds :
            /\ jobs[j].state # "dropped" =>
                   jobs[j].state \in {"pending", "fired", "cancelled"}
            /\ jobs[j].state \in {"pending", "cancelled"} =>
                   /\ jobs[j].body = "none"
                   /\ jobs[j].op = 0
                   /\ OpsOf(j) = {}
            /\ jobs[j].cancelCall = "pending" <=> jobs[j].state = "cancelled")
    /\ [][\A j \in JobIds :
            /\ jobs'[j].state # jobs[j].state =>
                   /\ jobs[j].state = "pending"
                   /\ jobs'[j].state \in {"fired", "cancelled"}
            /\ (jobs[j].state = "fired" /\ jobs'[j].cancelCall # jobs[j].cancelCall) =>
                   /\ ops' = ops
                   /\ jobs'[j].state = "fired"
                   /\ jobs'[j].body = jobs[j].body
                   /\ jobs'[j].op = jobs[j].op]_vars

C20_Witness ==
    /\ \E j \in JobIds :
        /\ jobs[j].state = "cancelled"
        /\ now > jobs[j].firesAt
    /\ \E j \in JobIds :
        /\ jobs[j].state = "fired"
        /\ jobs[j].cancelCall = "running"
        /\ jobs[j].body = "resolved"
        /\ ops[jobs[j].op].settled = "resolved"
        /\ ops[jobs[j].op].resps # <<>>

\* The jobs whose callback is suspended at the await of a publisher
\* operation that waits for a transport response.
RunningJobs ==
    {j \in JobIds : /\ jobs[j].body = "running"
                    /\ ops[jobs[j].op].settled = "pending"}

\* The model's bound on operations leaves room for one more job.
RoomForJob ==
    Len(ops) + Cardinality({j \in JobIds : jobs[j].op = 0}) < MaxOps

\* C21: whatever callbacks are suspended at an await, a pending job whose
\* instant has come can fire as soon as no synchronous code runs, and a
\* caller of the module can register a new job with any configuration and
\* time.
C21_JobsIndependent ==
    Idle =>
        /\ \A j \in JobIds :
               (jobs[j].state = "pending" /\ now >= jobs[j].firesAt) =>
                   ENABLED Fire(j)
        /\ (argv = <<>> /\ RoomForJob) =>
               \A c \in Configs : \A t \in Instants :
                   ENABLED SchedulePostCall(c, t)

\* A job registered after another job fired has itself fired while the
\* first job's operation was still waiting for its response.
C21_Witness ==
    \E j, k \in RunningJobs :
        /\ jobs[k].registeredAt > jobs[j].firedAt
        /\ jobs[k].state = "fired"
        /\ ops[jobs[j].op].pc \in {"awaitCreate", "awaitRegister", "awaitUpload"}

\* C22: with a credential missing, schedulePost still registers the job and
\* returns; nothing is validated, logged or requested before the job fires;
\* when it fires, the publisher method it calls fails with the error of
\* validateConfig, and no transport request is ever issued.
C22_LazyValidation ==
    ConfigInvalid =>
        /\ netCalls = 0
        /\ (Idle /\ argv = <<>> /\ RoomForJob) =>
               \A c \in Configs : \A t \in Instants :
                   ENABLED SchedulePostCall(c, t)
        /\ frame # 0 => ENABLED SchedulePostReturn
        /\ \A j \in JobIds :
               /\ jobs[j].state # "fired" => OpsOf(j) = {} /\ jobs[j].body = "none"
               /\ \A i \in OpsOf(j) :
                      /\ jobs[j].state = "fired"
                      /\ jobs[j].returned
                      /\ ops[i].reqs = <<>>
                      /\ ops[i].thrown = validateConfig
                      /\ ops[i].settled = "rejected"

C22_Witness ==
    /\ ConfigInvalid
    /\ netCalls = 0
    /\ \E j \in JobIds :
        /\ jobs[j].returned
        /\ jobs[j].state = "fired"
        /\ jobs[j].firedAt > jobs[j].registeredAt
        /\ OpsOf(j) # {}
        /\ \A i \in OpsOf(j) : ops[i].settled = "rejected"

\* C23: with a credential missing, a direct call of registerImageUpload or
\* uploadImage fails with the error of validateConfig before it issues any
\* transport request.
C23_StepsValidateFirst ==
    ConfigInvalid =>
        /\ netCalls = 0
        /\ \A i \in OpIds :
               ops[i].kind \in PipelineKinds =>
                   /\ ops[i].reqs = <<>>
                   /\ ops[i].settled = "rejected"
                   /\ ops[i].raised = validateConfig

\* The jobs whose configuration has a type tag the callback does not know.
UntypedJobs == {j \in JobIds : jobs[j].config.type \notin KnownTypes}

\* C24: schedulePost accepts a configuration whose type tag is none of text,
\* article and image and returns; when the job fires, the callback calls no
\* publisher method, issues no request and ends without an error, in the
\* step that fires it, and the job is then fired.
C24_UnknownTypeDoesNothing ==
    /\ [](\A j \in UntypedJobs :
            /\ frame = j => ENABLED SchedulePostReturn
            /\ OpsOf(j) = {}
            /\ jobs[j].op = 0
            /\ jobs[j].body \in {"none", "resolved"}
            /\ jobs[j].body = "resolved" <=> jobs[j].state = "fired")
    /\ [][\A j \in UntypedJobs :
            jobs'[j].state # jobs[j].state =>
                /\ ops' = ops
                /\ netCalls' = netCalls]_vars

C24_Witness ==
    /\ ~ConfigInvalid
    /\ \E j \in UntypedJobs :
        /\ jobs[j].returned
        /\ jobs[j].state = "fired"
        /\ jobs[j].body = "resolved"
        /\ jobs[j].firedAt = 1
        /\ netCalls = 0

\* C25: with every request answered, every started operation eventually
\* settles and every fired job eventually finishes its body; an operation is
\* pending only while a request of its own is unanswered, and once settled
\* it never changes again.
C25_EverythingSettles ==
    /\ [](\A i \in OpIds :
            /\ ops[i].settled = "pending" => Len(ops[i].reqs) = Len(ops[i].resps) + 1
            /\ ops[i].settled # "pending" =>
                   /\ Len(ops[i].reqs) = Len(ops[i].resps)
                   /\ ops[i].pc = "done"
                   /\ ops[i].settled = "resolved" <=> ops[i].raised = <<>>)
    /\ [][\A i \in OpIds : ops[i].settled # "pending" => ops'[i] = ops[i]]_vars
    /\ \A i \in 1..MaxOps :
           (Len(ops) >= i) ~> (Len(ops) >= i /\ ops[i].settled # "pending")
    /\ \A j \in 1..MaxOps :
           (Len(jobs) >= j /\ jobs[j].state = "fired")
               ~> (Len(jobs) >= j /\ jobs[j].body \in {"resolved", "rejected"})

C25_Witness ==
    \E j \in JobIds :
        /\ jobs[j].state = "fired"
        /\ jobs[j].body = "resolved"
        /\ jobs[j].op # 0
        /\ ops[jobs[j].op].kind = "image"
        /\ Len(ops[jobs[j].op].resps) = 3
        /\ ops[jobs[j].op].settled = "resolved"
====
